---- MODULE Spec2Model ----
(***************************************************************************)
(* A model of mlpack::mixed_logit_dcm::DCMTable (dcm_table.h): the table   *)
(* that indexes the per-person alternatives of a discrete choice model     *)
(* and computes multinomial-logit choice probabilities.                    *)
(*                                                                         *)
(* Conventions.  C++ vectors and tables are TLA+ sequences; the element    *)
(* the code addresses as v[i] (zero-based) is At(v, i).  Stored values     *)
(* (person indices, chosen indices, offsets) are kept zero-based as in     *)
(* the code.  A double is modelled by an integer of magnitude at most      *)
(* DblMax, or one of the three special values PosInf, NegInf, NaN, with    *)
(* IEEE-754 rules for overflow and for the special values.  exp(x) is      *)
(* kept symbolically as the record [exp |-> x].                            *)
(***************************************************************************)
EXTENDS Integers, Sequences, FiniteSets, TLC

VARIABLES
    pc,                                 \* where the program is
    attribute_table_,                   \* rows of the attribute table
    attribute_dimensions_,              \* std::vector<int>
    decisions_table_,                   \* one entry per person
    num_alternatives_table_,            \* one entry per person
    cumulative_num_discrete_choices_,   \* std::vector<int>
    shuffled_indices_for_person_,       \* std::vector<int>
    num_people_per_discrete_choice_,    \* std::vector<int>
    cerr,                               \* what has been written to std::cerr
    decisions_in,                       \* the decisions table as it was passed to Init
    origin,                             \* the operation that built the table
    readers,                            \* each reader thread's call in progress
    ret                                 \* the value the last accessor call returned

tableVars == << attribute_table_, attribute_dimensions_, decisions_table_,
                num_alternatives_table_, cumulative_num_discrete_choices_,
                shuffled_indices_for_person_, num_people_per_discrete_choice_ >>

vars == << pc, attribute_table_, attribute_dimensions_, decisions_table_,
           num_alternatives_table_, cumulative_num_discrete_choices_,
           shuffled_indices_for_person_, num_people_per_discrete_choice_,
           cerr, decisions_in, origin, readers, ret >>

---------------------------------------------------------------------------
(* Bounds of the model.                                                    *)

\* The most people a table passed to Init holds.
MaxPeople == 2

\* The largest entry of a num-alternatives table passed to Init.
MaxAlternatives == 2

\* The most people GenerateRandomDataset is asked for.
MaxRandomPeople == 1

\* The largest finite double of the model (std::numeric_limits<double>::max(),
\* scaled down so that overflow is within reach of the inputs below).
DblMax == 6

\* RandInt(3, 7) of GenerateRandomDataset.
RandIntLo == 3
RandIntHi == 7

---------------------------------------------------------------------------
(* Doubles.                                                                *)

PosInf == DblMax + 1
NegInf == 0 - (DblMax + 1)
NaN    == DblMax + 2

IsFinite(x) == x >= 0 - DblMax /\ x <= DblMax

\* Rounding of an exact result to a double: overflow gives an infinity.
DRound(x) ==
    IF x > DblMax THEN PosInf ELSE IF x < 0 - DblMax THEN NegInf ELSE x

DNeg(a) == IF a = NaN THEN NaN ELSE 0 - a

DAdd(a, b) ==
    IF a = NaN \/ b = NaN THEN NaN
    ELSE IF a = PosInf THEN (IF b = NegInf THEN NaN ELSE PosInf)
    ELSE IF a = NegInf THEN (IF b = PosInf THEN NaN ELSE NegInf)
    ELSE IF b = PosInf \/ b = NegInf THEN b
    ELSE DRound(a + b)

DSub(a, b) == DAdd(a, DNeg(b))

DMul(a, b) ==
    IF a = NaN \/ b = NaN THEN NaN
    ELSE IF IsFinite(a) /\ IsFinite(b) THEN DRound(a * b)
    ELSE IF a = 0 \/ b = 0 THEN NaN
    ELSE IF (a > 0) = (b > 0) THEN PosInf ELSE NegInf

\* a < b on doubles: false when either is NaN.
DLess(a, b) == a # NaN /\ b # NaN /\ a < b

\* std::max(a, b) is (a < b) ? b : a.
StdMax(a, b) == IF DLess(a, b) THEN b ELSE a

\* arma::dot(a, b): the products accumulated from the first component on.
RECURSIVE DotUpTo(_, _, _)
DotUpTo(a, b, n) ==
    IF n = 0 THEN 0
    ELSE DAdd(DotUpTo(a, b, n - 1), DMul(a[n], b[n]))

Dot(a, b) == DotUpTo(a, b, Len(a))

\* static_cast<int>(double) of a table entry (the entries are integral here).
ToInt(x) == x

---------------------------------------------------------------------------
(* Tables and vectors.                                                     *)

\* v[i], zero-based.
At(v, i) == v[i + 1]

\* TableType::n_entries().
n_entries(table) == Len(table)

InRange(v, i) == i >= 0 /\ i < Len(v)

RECURSIVE SumUpTo(_, _)
SumUpTo(v, n) == IF n = 0 THEN 0 ELSE SumUpTo(v, n - 1) + v[n]

SumSeq(v) == SumUpTo(v, Len(v))

RECURSIVE MaxUpTo(_, _, _)
MaxUpTo(v, n, start) ==
    IF n = 0 THEN start
    ELSE LET m == MaxUpTo(v, n - 1, start)
         IN  IF m < ToInt(v[n]) THEN ToInt(v[n]) ELSE m

---------------------------------------------------------------------------
(* The steps of DCMTable::Init.                                            *)

\* Mutants of DecrementDecisions: 2.0 subtracted; nothing subtracted.
DecrementDecisions_ByTwo(decisions) ==
    [i \in 1..Len(decisions) |-> DSub(decisions[i], 2)]

DecrementDecisions_None(decisions) == decisions

\* Lines 300-306: every entry of the decisions table has 1.0 subtracted.
DecrementDecisions(decisions) ==
    [i \in 1..Len(decisions) |-> DSub(decisions[i], 1)]

\* Mutant of IdentityIndices: the indices start at 1.
IdentityIndices_OneBased(n) == [i \in 1..n |-> i]

\* Lines 313-317: the indices 0, 1, ..., n-1 in order.
IdentityIndices(n) == [i \in 1..n |-> i - 1]

\* std::iter_swap on positions i and j (zero-based).
Swap(v, i, j) ==
    [k \in 1..Len(v) |-> IF k = i + 1 THEN At(v, j)
                         ELSE IF k = j + 1 THEN At(v, i)
                         ELSE v[k]]

\* Lines 318-320: std::random_shuffle swaps position i with a position drawn
\* from 0..i, for i = 1, ..., n-1; every sequence of draws is an outcome.
RECURSIVE ShuffleFrom(_, _)
ShuffleFrom(v, i) ==
    IF i >= Len(v) THEN {v}
    ELSE UNION { ShuffleFrom(Swap(v, i, j), i + 1) : j \in 0..i }

RandomShuffle(v) == ShuffleFrom(v, 1)

\* Mutant of CumulativeAt: person i's own count is added, not person i-1's.
RECURSIVE CumulativeAt_OffByOne(_, _)
CumulativeAt_OffByOne(num_alternatives, i) ==
    IF i = 0 THEN 0
    ELSE CumulativeAt_OffByOne(num_alternatives, i - 1)
             + ToInt(At(num_alternatives, i))

\* Lines 328-337: the offset of person i, from the offset of person i-1.
RECURSIVE CumulativeAt(_, _)
CumulativeAt(num_alternatives, i) ==
    IF i = 0 THEN 0
    ELSE CumulativeAt(num_alternatives, i - 1)
             + ToInt(At(num_alternatives, i - 1))

\* Lines 326-337: the vector of offsets, one per entry of the decisions table.
CumulativeNumDiscreteChoices(num_alternatives, n) ==
    [i \in 1..n |-> CumulativeAt(num_alternatives, i - 1)]

\* Lines 342-348: the check of the offsets against the attribute table.
CountsMatch(cumulative, num_alternatives, attribute_table) ==
    LET last       == Len(cumulative) - 1
        last_count == ToInt(At(num_alternatives, last))
    IN  At(cumulative, last) + last_count = n_entries(attribute_table)

\* Mutant of MaxNumAlternatives: the last entry, not the largest.
MaxNumAlternatives_Last(num_alternatives) ==
    ToInt(At(num_alternatives, n_entries(num_alternatives) - 1))

\* Lines 359-365: the largest entry of the num-alternatives table, from 0.
MaxNumAlternatives(num_alternatives) ==
    MaxUpTo(num_alternatives, n_entries(num_alternatives), 0)

\* Lines 366-370: resize and fill with zeros (nothing for a size below 1).
ZeroCounts(size) == [k \in 1..size |-> 0]

\* Mutant of CountPeople: the loop starts at person 1.
RECURSIVE CountPeople_SkipFirst(_, _, _)
CountPeople_SkipFirst(counts, decisions, n) ==
    IF n <= 1 THEN counts
    ELSE LET before == CountPeople_SkipFirst(counts, decisions, n - 1)
             index  == ToInt(At(decisions, n - 1))
         IN  [before EXCEPT ![index + 1] = @ + 1]

\* Lines 371-373: the first n people counted, each at the index the
\* decisions table holds for them.
RECURSIVE CountPeople(_, _, _)
CountPeople(counts, decisions, n) ==
    IF n = 0 THEN counts
    ELSE LET before == CountPeople(counts, decisions, n - 1)
             index  == ToInt(At(decisions, n - 1))
         IN  [before EXCEPT ![index + 1] = @ + 1]

\* Line 372 writes inside the vector for each of the first n people.
CountInBounds(size, decisions, n) ==
    \A i \in 0..(n - 1) :
        ToInt(At(decisions, i)) >= 0 /\ ToInt(At(decisions, i)) < size

NoRet == [op |-> "none"]

\* The threads that read the table once it is built.
Readers == {"reader1", "reader2"}

\* A reader thread that is in no call.
Idle == [at |-> "idle"]

\* DCMTable::Init, lines 287-374.  An access outside a vector or a table is
\* undefined behaviour: the program is then in "undefined", of which
\* nothing is known and where the model stops.
DCMTable_Init(attribute_table_in, attribute_dimensions_in, decisions_table_in, num_alternatives_table_in) ==
    LET decisions  == DecrementDecisions(decisions_table_in)
        n          == n_entries(decisions)
        cumulative == CumulativeNumDiscreteChoices(num_alternatives_table_in, n)
        size       == MaxNumAlternatives(num_alternatives_table_in)
    IN  /\ attribute_table_' = attribute_table_in
        /\ attribute_dimensions_' = attribute_dimensions_in
        /\ decisions_table_' = decisions
        /\ num_alternatives_table_' = num_alternatives_table_in
        /\ decisions_in' = decisions_table_in
        /\ ret' = NoRet
        /\ readers' = readers
        /\ shuffled_indices_for_person_' \in RandomShuffle(IdentityIndices(n))
        /\ IF n = 0 \/ n > n_entries(num_alternatives_table_in)
           THEN \* line 328 writes element 0 of an empty vector; lines 332
                \* and 343 read a row the table does not have
                /\ pc' = "undefined"
                /\ cumulative_num_discrete_choices_' = << >>
                /\ num_people_per_discrete_choice_' = << >>
                /\ cerr' = cerr
           ELSE IF ~CountsMatch(cumulative, num_alternatives_table_in,
                                attribute_table_in)
           THEN \* lines 349-351
                /\ pc' = "exited"
                /\ cumulative_num_discrete_choices_' = cumulative
                /\ num_people_per_discrete_choice_' = << >>
                /\ cerr' = Append(cerr, "do not equal")
           ELSE IF ~CountInBounds(size, decisions, n)
           THEN \* line 372 writes outside the vector
                /\ pc' = "undefined"
                /\ cumulative_num_discrete_choices_' = cumulative
                /\ num_people_per_discrete_choice_' = ZeroCounts(size)
                /\ cerr' = Append(cerr, "cumulative number")
           ELSE /\ pc' = "ready"
                /\ cumulative_num_discrete_choices_' = cumulative
                /\ num_people_per_discrete_choice_' =
                       CountPeople(ZeroCounts(size), decisions, n)
                /\ cerr' = Append(cerr, "cumulative number")

---------------------------------------------------------------------------
(* The accessors, as functions of the table.                               *)

\* Lines 281-283.
num_people == Len(cumulative_num_discrete_choices_)

\* Lines 255-258.
num_discrete_choices(person_index) ==
    ToInt(At(num_alternatives_table_, person_index))

\* Lines 262-264.
total_num_discrete_choices == Len(num_people_per_discrete_choice_)

\* Lines 268-271.
get_discrete_choice_index(person_index) ==
    ToInt(At(decisions_table_, person_index))

\* Lines 234-236.
num_people_per_discrete_choice(discrete_choice_index) ==
    At(num_people_per_discrete_choice_, discrete_choice_index)

\* Lines 241-243.
shuffled_indices_for_person(pos) == At(shuffled_indices_for_person_, pos)

\* Mutant of AttributeIndex: the person's offset is left out.
AttributeIndex_NoOffset(person_index, discrete_choice_index) ==
    discrete_choice_index

\* Lines 383-384: the row of the attribute table that is read.
AttributeIndex(person_index, discrete_choice_index) ==
    At(cumulative_num_discrete_choices_, person_index) + discrete_choice_index

\* Lines 379-386.
get_attribute_vector(person_index, discrete_choice_index) ==
    At(attribute_table_, AttributeIndex(person_index, discrete_choice_index))

---------------------------------------------------------------------------
(* DCMTable::choice_probabilities, lines 155-208.                          *)

\* exp(x), kept symbolically.
Exp(x) == [exp |-> x]

\* a / z, kept symbolically; z is the sequence of the terms summed into it.
Div(a, z) == [num |-> a, den |-> z]

\* Lines 177-183: the dot product stored for each alternative.
DotProducts(person_index, beta_vector) ==
    [a \in 1..num_discrete_choices(person_index) |->
        Dot(beta_vector, get_attribute_vector(person_index, a - 1))]

\* Lines 166 and 184: the running maximum, from -DBL_MAX.
RECURSIVE MaxDotUpTo(_, _)
MaxDotUpTo(dots, n) ==
    IF n = 0 THEN 0 - DblMax
    ELSE StdMax(MaxDotUpTo(dots, n - 1), dots[n])

MaxDotProduct(dots) == MaxDotUpTo(dots, Len(dots))

\* Lines 194-195.
AdjustedDotProduct(dot_product, max_dot_product) ==
    DAdd(DSub(dot_product, max_dot_product), 1)

\* Lines 196-199: the unnormalized probabilities.
Unnormalized(dots) ==
    [a \in 1..Len(dots) |->
        Exp(AdjustedDotProduct(dots[a], MaxDotProduct(dots)))]

\* Lines 163 and 197: 0.0 with every unnormalized probability added.
NormalizingSum(unnormalized) == unnormalized

\* Lines 203-207.
Normalize(unnormalized, normalizing_sum) ==
    [a \in 1..Len(unnormalized) |-> Div(unnormalized[a], normalizing_sum)]

choice_probabilities(person_index, beta_vector) ==
    LET unnormalized == Unnormalized(DotProducts(person_index, beta_vector))
    IN  Normalize(unnormalized, NormalizingSum(unnormalized))

\* Lines 219-220: the element of the vector that choice_probability returns.
ChosenElement(probabilities, person_index) ==
    At(probabilities, get_discrete_choice_index(person_index))

---------------------------------------------------------------------------
(* The inputs the model draws.                                             *)

\* Attribute vectors of the tables passed to Init.
AttributeVectors == << <<1, 0>>, <<0, 1>>, <<1, 1>>, <<0, 0>>, <<2, 0>> >>

\* Attribute vectors of a generated table: core::math::Random(0.1, 1.0)
\* in each component, line 119.
RandomVectors == << <<1, 1>>, <<1, 2>>, <<2, 1>> >>

\* The vector at which a generated table starts in RandomVectors.
Seeds == {0, 2}

\* A table of n rows over the given vectors, the first of them vector seed.
TableOf(vectors, seed, n) ==
    [j \in 1..n |-> vectors[((seed + j - 1) % Len(vectors)) + 1]]

\* The beta vectors calls are made with: small ones and the two of the
\* largest magnitude a double holds.
Betas == { <<1, 0>>, <<-1, 1>>, <<DblMax, DblMax>>, <<0 - DblMax, 0 - DblMax>> }

\* core::math::RandInt is defined outside this header; it is taken to draw
\* from the half-open range: RandInt(lo, hi) from lo, ..., hi - 1, and
\* RandInt(hi) from 0, ..., hi - 1.
RandInt(lo, hi) == lo..(hi - 1)

\* The row counts tried for a table whose alternatives sum to total.
RowCounts(total) == { r \in {total - 1, total, total + 1} : r >= 0 }

---------------------------------------------------------------------------
(* The operations.                                                         *)

\* A caller passes its tables to Init.
Init_Call ==
    /\ pc = "constructed"
    /\ origin' = "Init"
    /\ \E n \in 0..MaxPeople :
       \E num_alternatives \in [1..n -> 0..MaxAlternatives] :
       \E decisions \in [1..n -> 1..(MaxAlternatives + 1)] :
       \E rows \in RowCounts(SumSeq(num_alternatives)) :
           DCMTable_Init(TableOf(AttributeVectors, 0, rows),
                         << Len(AttributeVectors[1]) >>,
                         decisions, num_alternatives)

\* GenerateRandomDataset, lines 90-148.
GenerateRandomDataset ==
    /\ pc = "constructed"
    /\ origin' = "GenerateRandomDataset"
    /\ \E random_num_people_in \in 0..MaxRandomPeople :
       \E random_num_discrete_choices \in
              [1..random_num_people_in -> RandInt(RandIntLo, RandIntHi)] :
       \E seed \in Seeds :
       LET total == SumSeq(random_num_discrete_choices)
       IN  \E random_decisions \in
                  { d \in [1..random_num_people_in -> 1..(RandIntHi - 1)] :
                      \A j \in 1..random_num_people_in :
                          d[j] - 1 \in RandInt(0, random_num_discrete_choices[j]) } :
               DCMTable_Init(TableOf(RandomVectors, seed, total),
                             << Len(RandomVectors[1]) >>,
                             random_decisions, random_num_discrete_choices)

People == 0..(num_people - 1)

CanCall == pc = "ready" /\ ret.op = "none"

Returns(r) ==
    /\ ret' = r
    /\ UNCHANGED << pc, tableVars, cerr, decisions_in, origin, readers >>

Call_choice_probabilities ==
    /\ CanCall
    /\ \E person_index \in People, beta_vector \in Betas :
           Returns([op |-> "choice_probabilities", person |-> person_index,
                    beta |-> beta_vector,
                    val |-> choice_probabilities(person_index, beta_vector)])

\* Lines 214-221.  Reading past the end of the vector is undefined.
Call_choice_probability ==
    /\ CanCall
    /\ \E person_index \in People, beta_vector \in Betas :
       LET probabilities == choice_probabilities(person_index, beta_vector)
       IN  IF InRange(probabilities, get_discrete_choice_index(person_index))
           THEN Returns([op |-> "choice_probability", person |-> person_index,
                         beta |-> beta_vector,
                         val |-> ChosenElement(probabilities, person_index)])
           ELSE /\ pc' = "undefined"
                /\ UNCHANGED << tableVars, cerr, decisions_in, origin, readers, ret >>

Call_get_attribute_vector ==
    /\ CanCall
    /\ \E person_index \in People :
       \E discrete_choice_index \in 0..(num_discrete_choices(person_index) - 1) :
           Returns([op |-> "get_attribute_vector", person |-> person_index,
                    choice |-> discrete_choice_index,
                    val |-> get_attribute_vector(person_index,
                                                 discrete_choice_index)])

Call_num_people ==
    /\ CanCall
    /\ Returns([op |-> "num_people", val |-> num_people])

Call_num_discrete_choices ==
    /\ CanCall
    /\ \E person_index \in People :
           Returns([op |-> "num_discrete_choices", person |-> person_index,
                    val |-> num_discrete_choices(person_index)])

Call_total_num_discrete_choices ==
    /\ CanCall
    /\ Returns([op |-> "total_num_discrete_choices",
                val |-> total_num_discrete_choices])

Call_get_discrete_choice_index ==
    /\ CanCall
    /\ \E person_index \in People :
           Returns([op |-> "get_discrete_choice_index", person |-> person_index,
                    val |-> get_discrete_choice_index(person_index)])

Call_num_people_per_discrete_choice ==
    /\ CanCall
    /\ \E discrete_choice_index \in 0..(total_num_discrete_choices - 1) :
           Returns([op |-> "num_people_per_discrete_choice",
                    choice |-> discrete_choice_index,
                    val |-> num_people_per_discrete_choice(discrete_choice_index)])

Call_shuffled_indices_for_person ==
    /\ CanCall
    /\ \E pos \in People :
           Returns([op |-> "shuffled_indices_for_person", pos |-> pos,
                    val |-> shuffled_indices_for_person(pos)])

\* The caller has taken the returned value and may call again.
Resume ==
    /\ pc = "ready"
    /\ ret.op # "none"
    /\ ret' = NoRet
    /\ UNCHANGED << pc, tableVars, cerr, decisions_in, origin, readers >>

---------------------------------------------------------------------------
(* Reader threads: choice_probabilities and choice_probability run one     *)
(* loop iteration at a time, each thread on its own locals and its own     *)
(* output vector.                                                          *)

\* Mutant of ReadOnly: a call rewrites the decisions table as Init did.
ReadOnly_DecrementsAgain ==
    /\ decisions_table_' = DecrementDecisions(decisions_table_)
    /\ UNCHANGED << attribute_table_, attribute_dimensions_,
                    num_alternatives_table_, cumulative_num_discrete_choices_,
                    shuffled_indices_for_person_,
                    num_people_per_discrete_choice_ >>

\* The accessors are const member functions: no member is assigned.
ReadOnly == UNCHANGED tableVars

\* What a step of a reader thread leaves alone besides the table.
ReaderFrame == UNCHANGED << pc, cerr, decisions_in, origin, ret >>

\* v[i] = x, zero-based.
Store(v, i, x) == [v EXCEPT ![i + 1] = x]

\* Lines 159-166: the output vector sized, the locals initialised.  The
\* vector's elements are not initialised by set_size; 0 stands for them.
Reader_Begin(t) ==
    /\ pc = "ready"
    /\ readers[t].at = "idle"
    /\ \E op \in {"choice_probabilities", "choice_probability"} :
       \E person_index \in People, beta_vector \in Betas :
           readers' = [readers EXCEPT ![t] =
               [at |-> "dot", op |-> op, person |-> person_index,
                beta |-> beta_vector,
                num_discrete_choices |-> num_discrete_choices(person_index),
                choice_probabilities |->
                    [a \in 1..num_discrete_choices(person_index) |-> 0],
                normalizing_sum |-> << >>,
                max_dot_product |-> 0 - DblMax,
                discrete_choice_index |-> 0]]
    /\ ReadOnly
    /\ ReaderFrame

\* Lines 168-185: one iteration of the first loop, or its exit.
Reader_DotProduct(t) ==
    LET r == readers[t]
        dot_product == Dot(r.beta, get_attribute_vector(r.person,
                                                        r.discrete_choice_index))
    IN  /\ pc = "ready"
        /\ r.at = "dot"
        /\ readers' = [readers EXCEPT ![t] =
               IF r.discrete_choice_index < r.num_discrete_choices
               THEN [r EXCEPT
                       !.choice_probabilities =
                           Store(@, r.discrete_choice_index, dot_product),
                       !.max_dot_product = StdMax(@, dot_product),
                       !.discrete_choice_index = @ + 1]
               ELSE [r EXCEPT !.at = "exp", !.discrete_choice_index = 0]]
        /\ ReadOnly
        /\ ReaderFrame

\* Lines 190-200: one iteration of the second loop, or its exit.
Reader_Unnormalized(t) ==
    LET r == readers[t]
        unnormalized_probability ==
            Exp(AdjustedDotProduct(
                    At(r.choice_probabilities, r.discrete_choice_index),
                    r.max_dot_product))
    IN  /\ pc = "ready"
        /\ r.at = "exp"
        /\ readers' = [readers EXCEPT ![t] =
               IF r.discrete_choice_index < r.num_discrete_choices
               THEN [r EXCEPT
                       !.normalizing_sum = Append(@, unnormalized_probability),
                       !.choice_probabilities =
                           Store(@, r.discrete_choice_index,
                                 unnormalized_probability),
                       !.discrete_choice_index = @ + 1]
               ELSE [r EXCEPT !.at = "normalize", !.discrete_choice_index = 0]]
        /\ ReadOnly
        /\ ReaderFrame

\* Lines 203-207: one iteration of the third loop, or its exit.
Reader_Normalize(t) ==
    LET r == readers[t]
    IN  /\ pc = "ready"
        /\ r.at = "normalize"
        /\ readers' = [readers EXCEPT ![t] =
               IF r.discrete_choice_index < r.num_discrete_choices
               THEN [r EXCEPT
                       !.choice_probabilities =
                           Store(@, r.discrete_choice_index,
                                 Div(At(r.choice_probabilities,
                                        r.discrete_choice_index),
                                     r.normalizing_sum)),
                       !.discrete_choice_index = @ + 1]
               ELSE [r EXCEPT !.at = "computed"]]
        /\ ReadOnly
        /\ ReaderFrame

\* Line 208 and lines 219-220: the call returns its vector, or the element
\* of it at the person's chosen index (undefined outside the vector).
Reader_Return(t) ==
    LET r == readers[t]
    IN  /\ pc = "ready"
        /\ r.at = "computed"
        /\ IF r.op = "choice_probabilities"
           THEN /\ readers' = [readers EXCEPT ![t] =
                       [at |-> "returned", op |-> r.op, person |-> r.person,
                        beta |-> r.beta, val |-> r.choice_probabilities]]
                /\ pc' = pc
           ELSE IF InRange(r.choice_probabilities,
                           get_discrete_choice_index(r.person))
           THEN /\ readers' = [readers EXCEPT ![t] =
                       [at |-> "returned", op |-> r.op, person |-> r.person,
                        beta |-> r.beta,
                        val |-> ChosenElement(r.choice_probabilities, r.person)]]
                /\ pc' = pc
           ELSE /\ readers' = readers
                /\ pc' = "undefined"
        /\ ReadOnly
        /\ UNCHANGED << cerr, decisions_in, origin, ret >>

\* A getter or get_attribute_vector, called and returned in one step.
Reader_Get(t) ==
    /\ pc = "ready"
    /\ readers[t].at = "idle"
    /\ \/ \E person_index \in People :
          \E discrete_choice_index \in 0..(num_discrete_choices(person_index) - 1) :
              readers' = [readers EXCEPT ![t] =
                  [at |-> "returned", op |-> "get_attribute_vector",
                   person |-> person_index, choice |-> discrete_choice_index,
                   val |-> get_attribute_vector(person_index,
                                                discrete_choice_index)]]
       \/ \E person_index \in People :
              readers' = [readers EXCEPT ![t] =
                  [at |-> "returned", op |-> "get_discrete_choice_index",
                   person |-> person_index,
                   val |-> get_discrete_choice_index(person_index)]]
       \/ \E pos \in People :
              readers' = [readers EXCEPT ![t] =
                  [at |-> "returned", op |-> "shuffled_indices_for_person",
                   pos |-> pos, val |-> shuffled_indices_for_person(pos)]]
       \/ \E discrete_choice_index \in 0..(total_num_discrete_choices - 1) :
              readers' = [readers EXCEPT ![t] =
                  [at |-> "returned", op |-> "num_people_per_discrete_choice",
                   choice |-> discrete_choice_index,
                   val |-> num_people_per_discrete_choice(discrete_choice_index)]]
    /\ ReadOnly
    /\ ReaderFrame

\* The caller has the returned value; the thread is free for its next call.
Reader_Done(t) ==
    /\ pc = "ready"
    /\ readers[t].at = "returned"
    /\ readers' = [readers EXCEPT ![t] = Idle]
    /\ ReadOnly
    /\ ReaderFrame

\* The tables of the worked example: two people with 2 and 3 alternatives
\* who chose their 1st and 3rd, over the five attribute rows; and two
\* people with 1 and 2 alternatives who chose their 1st and 2nd.
ExampleTables ==
    { [num_alternatives |-> <<2, 3>>, decisions |-> <<1, 3>>],
      [num_alternatives |-> <<1, 2>>, decisions |-> <<1, 2>>] }

\* A caller passes one of the example tables to Init.
Init_Example ==
    /\ pc = "constructed"
    /\ origin' = "Init"
    /\ \E tables \in ExampleTables :
           DCMTable_Init(TableOf(AttributeVectors, 0,
                                 SumSeq(tables.num_alternatives)),
                         << Len(AttributeVectors[1]) >>,
                         tables.decisions, tables.num_alternatives)

\* Before Init the object holds three unset pointers and three empty vectors.
Init ==
    /\ pc = "constructed"
    /\ attribute_table_ = << >>
    /\ attribute_dimensions_ = << >>
    /\ decisions_table_ = << >>
    /\ num_alternatives_table_ = << >>
    /\ cumulative_num_discrete_choices_ = << >>
    /\ shuffled_indices_for_person_ = << >>
    /\ num_people_per_discrete_choice_ = << >>
    /\ cerr = << >>
    /\ decisions_in = << >>
    /\ origin = "none"
    /\ readers = [t \in Readers |-> Idle]
    /\ ret = NoRet

Next ==
    \/ Init_Call
    \/ GenerateRandomDataset
    \/ Call_choice_probabilities
    \/ Call_choice_probability
    \/ Call_get_attribute_vector
    \/ Call_num_people
    \/ Call_num_discrete_choices
    \/ Call_total_num_discrete_choices
    \/ Call_get_discrete_choice_index
    \/ Call_num_people_per_discrete_choice
    \/ Call_shuffled_indices_for_person
    \/ Resume

Spec == Init /\ [][Next]_vars

\* The table built from an example and read by the reader threads, their
\* steps interleaved in every order.
NextReaders ==
    \/ Init_Example
    \/ \E t \in Readers : Reader_Begin(t)
    \/ \E t \in Readers : Reader_DotProduct(t)
    \/ \E t \in Readers : Reader_Unnormalized(t)
    \/ \E t \in Readers : Reader_Normalize(t)
    \/ \E t \in Readers : Reader_Return(t)
    \/ \E t \in Readers : Reader_Get(t)
    \/ \E t \in Readers : Reader_Done(t)

SpecReaders == Init /\ [][NextReaders]_vars

---------------------------------------------------------------------------
(* Vocabulary of the properties.                                           *)

\* Init has returned with the table built.
InitSucceeded == pc = "ready"

\* The number of alternatives of each person, as passed to Init.
NumAlternatives(p) == ToInt(At(num_alternatives_table_, p))

\* The sum of the numbers of alternatives over all people.
TotalAlternatives == SumSeq(num_alternatives_table_)

\* m is the largest number of alternatives any person has (0 without people
\* with alternatives).
IsMaxAlternatives(m) ==
    /\ \A p \in People : NumAlternatives(p) <= m
    /\ m = 0 \/ \E p \in People : NumAlternatives(p) = m

\* The people whose chosen index is k.
PeopleChoosing(k) == { p \in People : get_discrete_choice_index(p) = k }

\* The value of a returned probability [num |-> exp(x), den |-> sum of exp(y)].
SumIsNaN(z)  == \E i \in 1..Len(z) : z[i].exp = NaN
SumIsInf(z)  == ~SumIsNaN(z) /\ \E i \in 1..Len(z) : z[i].exp = PosInf
SumIsZero(z) == \A i \in 1..Len(z) : z[i].exp = NegInf
ProbIsNaN(q) ==
    \/ q.num.exp = NaN
    \/ SumIsNaN(q.den)
    \/ q.num.exp = NegInf /\ SumIsZero(q.den)
    \/ q.num.exp = PosInf /\ SumIsInf(q.den)

\* How many of the terms exp(x) a sequence of them holds.
TermCount(z, x) == Cardinality({ i \in 1..Len(z) : z[i].exp = x })

\* The probabilities are numbers, share one finite non-zero denominator, and
\* their numerators are, term for term, what the denominator sums: they add
\* up to exactly 1.
SumsToOne(probabilities) ==
    /\ Len(probabilities) >= 1
    /\ \A a \in 1..Len(probabilities) :
           /\ ~ProbIsNaN(probabilities[a])
           /\ probabilities[a].den = probabilities[1].den
    /\ ~SumIsInf(probabilities[1].den)
    /\ ~SumIsZero(probabilities[1].den)
    /\ \A x \in (0 - DblMax)..DblMax :
           TermCount([a \in 1..Len(probabilities) |-> probabilities[a].num], x)
               = TermCount(probabilities[1].den, x)

\* Every person has an alternative and chose one of them.
ValidTable ==
    \A p \in People :
        /\ NumAlternatives(p) >= 1
        /\ get_discrete_choice_index(p) >= 0
        /\ get_discrete_choice_index(p) < NumAlternatives(p)

\* The pairs (person, alternative index) of the alternatives people have.
ValidPairs ==
    { pair \in People \X (0..(TotalAlternatives - 1)) :
          pair[2] < NumAlternatives(pair[1]) }

\* The rows of the attribute table.
Rows == 0..(n_entries(attribute_table_) - 1)

\* The row get_attribute_vector reads for a pair.
RowOf(pair) == AttributeIndex(pair[1], pair[2])

---------------------------------------------------------------------------
(* The properties.                                                         *)

\* C1: whenever the sum of numAlternatives over all people differs from the
\* attribute table's row count, Init reports a fatal error on std::cerr and
\* terminates the program, after which nothing runs and so no reader sees
\* the partly built table; whenever the two are equal, Init completes.
C1_InitFailsFast ==
    [][ /\ pc = "constructed" =>
              IF TotalAlternatives' # n_entries(attribute_table_')
              THEN pc' = "exited" /\ cerr' = Append(cerr, "do not equal")
              ELSE pc' = "ready"
        /\ pc # "exited" ]_vars

\* C2: after a successful Init the offsets are the prefix sums of the
\* alternative counts: the first is 0, each next one adds the previous
\* person's count, and the last one plus the last count is the number of
\* attribute rows.
C2_PrefixSums ==
    InitSucceeded =>
        /\ Len(cumulative_num_discrete_choices_) = Len(num_alternatives_table_)
        /\ At(cumulative_num_discrete_choices_, 0) = 0
        /\ \A p \in 0..(num_people - 2) :
               At(cumulative_num_discrete_choices_, p) + NumAlternatives(p)
                   = At(cumulative_num_discrete_choices_, p + 1)
        /\ At(cumulative_num_discrete_choices_, num_people - 1)
               + NumAlternatives(num_people - 1)
               = n_entries(attribute_table_)

C2_Witness ==
    /\ InitSucceeded
    /\ num_people >= 2
    /\ At(cumulative_num_discrete_choices_, 1) >= 2

\* C3: on a valid table, for every person and every finite beta,
\* choice_probabilities returns numAlternatives(p) values, each a
\* non-negative number, that sum to 1.
C3_ValidDistribution ==
    (ret.op = "choice_probabilities" /\ ValidTable) =>
        /\ Len(ret.val) = NumAlternatives(ret.person)
        /\ \A a \in 1..Len(ret.val) : ~ProbIsNaN(ret.val[a])
        /\ SumsToOne(ret.val)

\* C4: Init leaves in the decisions table each person's 1-based entry d_p
\* less exactly 1, and a choice_probability(p, beta) that returns gives the
\* element of choice_probabilities(p, beta) at the zero-based index d_p - 1.
C4_ChosenProbability ==
    /\ InitSucceeded =>
           \A p \in People :
               get_discrete_choice_index(p) = At(decisions_in, p) - 1
    /\ ret.op = "choice_probability" =>
           ret.val = At(choice_probabilities(ret.person, ret.beta),
                        At(decisions_in, ret.person) - 1)

C4_Witness ==
    /\ ret.op = "choice_probability"
    /\ At(decisions_in, ret.person) = 2
    /\ ret.val # At(choice_probabilities(ret.person, ret.beta), 0)

\* C5 as claimed: total_num_discrete_choices() returns the number of
\* attribute rows, the sum of numAlternatives over all people.
C5_Original ==
    ret.op = "total_num_discrete_choices" =>
        /\ ret.val = n_entries(attribute_table_)
        /\ ret.val = TotalAlternatives

\* C5: after a successful Init, total_num_discrete_choices() returns the
\* number of buckets of the per-alternative count, which is the largest
\* numAlternatives of any person.
C5_BucketCount ==
    ret.op = "total_num_discrete_choices" =>
        /\ ret.val = Len(num_people_per_discrete_choice_)
        /\ IsMaxAlternatives(ret.val)

C5_Witness ==
    /\ ret.op = "total_num_discrete_choices"
    /\ num_people >= 2
    /\ ret.val >= 2
    /\ ret.val < n_entries(attribute_table_)

\* C6 as claimed: after a successful Init every person's chosen index is
\* at least 0 and below that person's numAlternatives, whatever tables
\* were passed to Init.
C6_Original ==
    InitSucceeded =>
        \A p \in People :
            /\ get_discrete_choice_index(p) >= 0
            /\ get_discrete_choice_index(p) < NumAlternatives(p)

\* C6: after a successful Init the chosen index of a person is within
\* 0..numAlternatives(p)-1 exactly when the 1-based decision passed in for
\* that person is within 1..numAlternatives(p), which holds for every
\* person of a table built by GenerateRandomDataset.
C6_ChosenIndexRange ==
    InitSucceeded =>
        \A p \in People :
            /\ ( /\ get_discrete_choice_index(p) >= 0
                 /\ get_discrete_choice_index(p) < NumAlternatives(p) )
               <=> ( /\ At(decisions_in, p) >= 1
                     /\ At(decisions_in, p) <= NumAlternatives(p) )
            /\ origin = "GenerateRandomDataset" =>
                   /\ get_discrete_choice_index(p) >= 0
                   /\ get_discrete_choice_index(p) < NumAlternatives(p)

C6_Witness ==
    /\ InitSucceeded
    /\ num_people >= 2
    /\ \A p \in People : At(decisions_in, p) = NumAlternatives(p)
    /\ \E p \in People : get_discrete_choice_index(p) >= 1

\* C7: after a successful Init the per-alternative counts have one bucket
\* per alternative index up to the largest numAlternatives, bucket k holds
\* the number of people whose chosen index is k, and the buckets sum to the
\* number of people.
C7_Histogram ==
    InitSucceeded =>
        /\ IsMaxAlternatives(Len(num_people_per_discrete_choice_))
        /\ \A k \in 0..(Len(num_people_per_discrete_choice_) - 1) :
               num_people_per_discrete_choice(k) = Cardinality(PeopleChoosing(k))
        /\ SumSeq(num_people_per_discrete_choice_) = num_people

C7_Witness ==
    /\ InitSucceeded
    /\ Len(num_people_per_discrete_choice_) >= 2
    /\ \E k \in 0..(Len(num_people_per_discrete_choice_) - 1) :
           num_people_per_discrete_choice(k) >= 2

\* C8: after a successful Init the shuffled indices are a permutation of
\* 0..numPeople-1, whichever order the shuffle drew.
C8_Permutation ==
    InitSucceeded =>
        /\ Len(shuffled_indices_for_person_) = num_people
        /\ { shuffled_indices_for_person(i) : i \in People } = People

C8_Witness ==
    /\ InitSucceeded
    /\ num_people >= 2
    /\ shuffled_indices_for_person(0) # 0

\* What a call returns when it runs alone, start to end, on the table.
Sequentially(r) ==
    CASE r.op = "choice_probabilities" ->
             choice_probabilities(r.person, r.beta)
      [] r.op = "choice_probability" ->
             ChosenElement(choice_probabilities(r.person, r.beta), r.person)
      [] r.op = "get_attribute_vector" ->
             get_attribute_vector(r.person, r.choice)
      [] r.op = "get_discrete_choice_index" ->
             get_discrete_choice_index(r.person)
      [] r.op = "shuffled_indices_for_person" ->
             shuffled_indices_for_person(r.pos)
      [] r.op = "num_people_per_discrete_choice" ->
             num_people_per_discrete_choice(r.choice)

\* C9: once Init has completed no step of a call of choice_probabilities,
\* choice_probability, get_attribute_vector or a getter changes the table
\* (raw tables, decisions, offsets, shuffled order, counts), and however the
\* steps of two reader threads interleave, each call returns what it
\* returns when run alone.
C9_ReadersPure ==
    /\ [][pc = "ready" => tableVars' = tableVars]_vars
    /\ [](\A t \in Readers :
              readers[t].at = "returned" =>
                  readers[t].val = Sequentially(readers[t]))

C9_Witness ==
    /\ readers["reader1"].at = "returned"
    /\ readers["reader1"].op = "choice_probability"
    /\ readers["reader2"].at = "exp"
    /\ readers["reader2"].discrete_choice_index >= 1
    /\ readers["reader2"].person # readers["reader1"].person

\* C10: for a person with at least one alternative, the value subtracted
\* from the scores is their maximum, so every exponent argument
\* score - m + 1 is at most 1, and is 1 where the score is the maximum.
C10_MaxShift ==
    (ret.op = "choice_probabilities" /\ NumAlternatives(ret.person) >= 1) =>
        LET scores == DotProducts(ret.person, ret.beta)
            m      == MaxDotProduct(scores)
        IN  /\ \E a \in 1..Len(scores) : scores[a] = m
            /\ \A a \in 1..Len(scores) : ~DLess(m, scores[a])
            /\ \A a \in 1..Len(scores) :
                   /\ ret.val[a].num.exp # NaN
                   /\ ret.val[a].num.exp <= 1
                   /\ scores[a] = m => ret.val[a].num.exp = 1

\* C11: after a successful Init in which every person has at least one
\* alternative, the row index cumulativeOffset[person] + alternativeIndex of
\* get_attribute_vector takes the pairs (person, alternativeIndex below the
\* person's numAlternatives) one-to-one onto the rows of the attribute
\* table: every index is a row, no two pairs share a row, every row is the
\* row of a pair, the rows of a person follow one another and the rows of
\* the next person begin where they end; get_attribute_vector returns the
\* row at that index.
C11_RowsOneToOne ==
    (InitSucceeded /\ \A p \in People : NumAlternatives(p) >= 1) =>
        LET pairs == ValidPairs
            rows  == [pair \in pairs |-> RowOf(pair)]
        IN  /\ \A pair \in pairs : rows[pair] \in Rows
            /\ \A pair1, pair2 \in pairs :
                   rows[pair1] = rows[pair2] => pair1 = pair2
            /\ \A r \in Rows : \E pair \in pairs : rows[pair] = r
            /\ \A pair \in pairs :
                   << pair[1], pair[2] + 1 >> \in pairs =>
                       rows[<< pair[1], pair[2] + 1 >>] = rows[pair] + 1
            /\ \A p \in People :
                   p + 1 \in People =>
                       rows[<< p + 1, 0 >>]
                           = rows[<< p, NumAlternatives(p) - 1 >>] + 1
            /\ ret.op = "get_attribute_vector" =>
                   /\ << ret.person, ret.choice >> \in pairs
                   /\ ret.val = At(attribute_table_,
                                   SumUpTo(num_alternatives_table_, ret.person)
                                       + ret.choice)

C11_Witness ==
    /\ InitSucceeded
    /\ \A p \in People : NumAlternatives(p) >= 1
    /\ num_people >= 2
    /\ NumAlternatives(0) # NumAlternatives(1)
    /\ ret.op = "get_attribute_vector"
    /\ ret.person >= 1
    /\ ret.choice >= 1
    /\ ret.val = At(attribute_table_, n_entries(attribute_table_) - 1)

====
